---------------------------- MODULE Spec2Model ----------------------------
(***************************************************************************)
(* Quiz subsystem of the recruiting platform: the start / answer /         *)
(* finalize state machine of the quiz design document                      *)
(* (services/recruiter_web/src/vite-env.d.ts, "Quiz System Architecture")  *)
(* and of the FastAPI endpoint of the response-handling document           *)
(* (unnamed/part_004).  Each HTTP call is a sequence of awaited database   *)
(* steps; one request slot runs one call at a time.                        *)
(*                                                                         *)
(* The second part is the recruiter web app (services/recruiter_web/src):  *)
(* AuthProvider.checkSession and logout, AppContent, and the KanbanBoard   *)
(* component with its drag handlers and its calls of the tasks API.        *)
(***************************************************************************)
EXTENDS Integers, Sequences, FiniteSets, TLC

VARIABLES
    sessions,   \* table quiz_sessions: sequence of rows, id = index
    answers,    \* table quiz_answers: set of committed rows
    now,        \* wall clock, in minutes
    reqs,       \* per request slot: the call in flight and its locals
    impl,       \* which submit_answer the deployment runs: "doc" | "router"
    calls,      \* number of API calls received so far
    auth,       \* recruiter web app: state of AuthProvider and the location
    board,      \* recruiter web app: state of the KanbanBoard component
    server,     \* tasks API: the status the server holds for each task
    drags       \* handleDragEnd calls waiting for the tasks API

vars == <<sessions, answers, now, reqs, impl, calls, auth, board, server, drags>>

quiz == <<sessions, answers, now, reqs, impl, calls>>
web == <<auth, board, server, drags>>

---------------------------------------------------------------------------
(* Bounds of the model *)

MaxCalls == 4
MaxConcCalls == 4
MaxTicks == 1

(* Program constants *)

SessionMinutes == 15
NULL == -1

Reqs == {1, 2}
SeqReqs == {1}
Impls == {"doc", "router"}

Candidates == {1}
Tracks == {1, 2, 3}

\* inputs of the interleaved specification
ConcTracks == {1}
ConcQuestions == {1, 2, 3}
ConcInputs == {"A"}

---------------------------------------------------------------------------
(* Question bank: quiz_blocks, track_quiz_blocks, quiz_questions.          *)
(* Track 1 is the two-block track: block 1 (2 questions) then block 2      *)
(* (1 question).  Track 2 has no configured blocks.  Track 3 asks for 2    *)
(* questions of block 3, which has one, then 1 of block 2.  Question 4     *)
(* belongs to block 3, which track 1 does not use; question 5 is an        *)
(* inactive question of block 1.  Every question's correct_answer is one   *)
(* of the four labels; clients send "A" or the malformed label "E".        *)

Questions == 1..5
UnknownQuestion == 0

ValidOptions == {"A", "B", "C", "D"}
AnswerInputs == {"A", "E"}

QuestionBank ==
    [q \in Questions |->
        CASE q = 1 -> [block_id |-> 1, correct_answer |-> "A", is_active |-> TRUE]
          [] q = 2 -> [block_id |-> 1, correct_answer |-> "B", is_active |-> TRUE]
          [] q = 3 -> [block_id |-> 2, correct_answer |-> "A", is_active |-> TRUE]
          [] q = 4 -> [block_id |-> 3, correct_answer |-> "A", is_active |-> TRUE]
          [] q = 5 -> [block_id |-> 1, correct_answer |-> "A", is_active |-> FALSE]]

\* quiz_blocks.name, UNIQUE
BlockName == [b \in 1..3 |-> CASE b = 1 -> "A" [] b = 2 -> "B" [] b = 3 -> "C"]

get_track_quiz_blocks(track_id) ==
    IF track_id = 1
    THEN << [block_id |-> 1, questions_count |-> 2],
            [block_id |-> 2, questions_count |-> 1] >>
    ELSE IF track_id = 3
    THEN << [block_id |-> 3, questions_count |-> 2],
            [block_id |-> 2, questions_count |-> 1] >>
    ELSE << >>

---------------------------------------------------------------------------
(* Requests *)

NoStats == [total |-> 0, correct |-> 0, wrong |-> 0, score |-> NULL]
NoResp ==
    [type |-> "none", code |-> 0, reason |-> "", question |-> 0,
     question_number |-> 0]

IdleReq ==
    [pc |-> "idle", op |-> "none", cand |-> 0, track |-> 0, sid |-> 0,
     qid |-> 0, answer |-> "", expired |-> FALSE,
     is_correct |-> FALSE, inserted |-> FALSE,
     stats |-> NoStats, reason |-> "", resp |-> NoResp]

ErrorResp(code) == [NoResp EXCEPT !.type = "error", !.code = code]
EndResp(reason) == [NoResp EXCEPT !.type = "end", !.code = 200, !.reason = reason]

\* mutant: format_question(next_question, questions_answered)
ContinueResp_noincrement(q, number) ==
    [NoResp EXCEPT !.type = "continue", !.code = 200, !.question = q,
                   !.question_number = number - 1]

\* format_question(question, number) inside the two success payloads
ContinueResp(q, number) ==
    [NoResp EXCEPT !.type = "continue", !.code = 200, !.question = q,
                   !.question_number = number]
StartedResp(q) ==
    [NoResp EXCEPT !.type = "started", !.code = 200, !.question = q,
                   !.question_number = 1]

SessionIds == 1..Len(sessions)

---------------------------------------------------------------------------
(* Queries *)

get_session(sid) == IF sid \in SessionIds THEN sid ELSE 0

get_active_session(cand, track) ==
    {s \in SessionIds : /\ sessions[s].candidate_id = cand
                        /\ sessions[s].track_id = track
                        /\ sessions[s].status = "in_progress"}

SessionAnswers(sid) == {a \in answers : a.session_id = sid}

get_answered_question_ids(sid) == {a.question_id : a \in SessionAnswers(sid)}

count_block_questions_in_session(sid, block_id) ==
    Cardinality({a \in SessionAnswers(sid) :
                    a.question_id \in Questions
                    /\ QuestionBank[a.question_id].block_id = block_id})

\* mutant: the query has no "id NOT IN (:answered_ids)"
get_random_question_from_block_all(block_id, exclude_ids) ==
    {q \in Questions : /\ QuestionBank[q].block_id = block_id
                       /\ QuestionBank[q].is_active}

\* SELECT ... WHERE block_id = :block_id AND is_active AND id NOT IN (:answered_ids)
get_random_question_from_block(block_id, exclude_ids) ==
    {q \in Questions : /\ QuestionBank[q].block_id = block_id
                       /\ QuestionBank[q].is_active
                       /\ q \notin exclude_ids}

\* mutant: any block that still lacks questions may give the next one
NextFrom_unordered(sid, blocks, i) ==
    UNION {get_random_question_from_block(
               blocks[j].block_id, get_answered_question_ids(sid)) :
           j \in {k \in i..Len(blocks) :
                     count_block_questions_in_session(sid, blocks[k].block_id)
                         < blocks[k].questions_count}}

\* mutant: only the first remaining block is looked at
NextFrom_firstonly(sid, blocks, i) ==
    IF i > Len(blocks) THEN {}
    ELSE IF count_block_questions_in_session(sid, blocks[i].block_id)
               < blocks[i].questions_count
         THEN get_random_question_from_block(
                  blocks[i].block_id, get_answered_question_ids(sid))
         ELSE {}

\* The blocks, in configured order, that still lack questions and can give one.
RECURSIVE NextFrom(_, _, _)
NextFrom(sid, blocks, i) ==
    IF i > Len(blocks) THEN {}
    ELSE LET cfg == blocks[i]
             cand == get_random_question_from_block(
                         cfg.block_id, get_answered_question_ids(sid))
         IN IF count_block_questions_in_session(sid, cfg.block_id)
                   < cfg.questions_count
               /\ cand # {}
            THEN cand
            ELSE NextFrom(sid, blocks, i + 1)

get_next_question(sid) ==
    NextFrom(sid, get_track_quiz_blocks(sessions[sid].track_id), 1)

count_answered_questions(sid) == Cardinality(SessionAnswers(sid))

Score(correct, total) ==
    IF total = 0 THEN 0 ELSE (10000 * correct + total \div 2) \div total

calculate_stats(sid) ==
    LET rows == SessionAnswers(sid)
        total == Cardinality(rows)
        correct == Cardinality({a \in rows : a.is_correct})
    IN [total |-> total, correct |-> correct, wrong |-> total - correct,
        score |-> Score(correct, total)]

\* mutant: one entry for every configured block of the track
blocks_performance_configured(sid) ==
    {[block_name |-> BlockName[get_track_quiz_blocks(
                                   sessions[sid].track_id)[i].block_id],
      total |-> count_block_questions_in_session(
                    sid, get_track_quiz_blocks(
                             sessions[sid].track_id)[i].block_id),
      correct |-> 0] :
        i \in 1..Len(get_track_quiz_blocks(sessions[sid].track_id))}

\* SELECT qb.name, COUNT(*), SUM(is_correct) FROM quiz_answers qa
\* JOIN quiz_questions qq JOIN quiz_blocks qb ... GROUP BY qb.name
blocks_performance(sid) ==
    LET joined == {[name |-> BlockName[QuestionBank[a.question_id].block_id],
                    row |-> a] : a \in SessionAnswers(sid)}
    IN {[block_name |-> n,
         total |-> Cardinality({j \in joined : j.name = n}),
         correct |-> Cardinality({j \in joined :
                                    j.name = n /\ j.row.is_correct})] :
            n \in {j.name : j \in joined}}

\* the "results" of a termination response
calculate_results(sid) ==
    [total_questions |-> sessions[sid].total_questions,
     correct_answers |-> sessions[sid].correct_answers,
     wrong_answers |-> sessions[sid].wrong_answers,
     blocks_performance |-> blocks_performance(sid)]

---------------------------------------------------------------------------
(* Recruiter web app (services/recruiter_web): the data of the Kanban      *)
(* board and of the authorization provider.  KanbanBoard.tsx holds three   *)
(* versions of the component: "v1" (lines 1-222, with handleDragOver),     *)
(* "v2" (225-456) and "v3" (458-661).  The provider exists in two          *)
(* versions: "part_002" (with the error state) and "AuthProvider.tsx".     *)

BoardVariants == {"v1", "v2", "v3"}
AuthVariants == {"part_002", "AuthProvider.tsx"}

COLUMNS == <<"backlog", "in_progress", "done", "rejected">>
TaskStatuses == {COLUMNS[i] : i \in 1..Len(COLUMNS)}

\* the tasks of the recruiter; task 2 was created after task 1
TaskIds == {1, 2}
CreatedAt == [t \in TaskIds |-> t]

Handlers == {1, 2}

\* outcomes of a call of the tasks API
GetOutcomes == {"ok", "empty", "fail"}
PatchOutcomes == {"ok", "fail", "lost"}

\* event.over of a drag event: nothing, a column, or another card
NoOver == [type |-> "none", column |-> "", task |-> 0]
Overs ==
    {NoOver}
    \cup {[type |-> "column", column |-> c, task |-> 0] : c \in TaskStatuses}
    \cup {[type |-> "task", column |-> "", task |-> t] : t \in TaskIds}

\* errors a rejected toSession() can carry
ErrorShapes ==
    { [has_response |-> TRUE, response_status |-> 401,
       has_status |-> FALSE, status |-> 0],
      [has_response |-> FALSE, response_status |-> 0,
       has_status |-> TRUE, status |-> 401],
      [has_response |-> TRUE, response_status |-> 500,
       has_status |-> FALSE, status |-> 0],
      [has_response |-> FALSE, response_status |-> 0,
       has_status |-> FALSE, status |-> 0] }

\* useState initial values of AuthProvider, before the effect has run
AuthUnmounted ==
    [variant |-> "none", enabled |-> FALSE, pc |-> "unmounted",
     user |-> "null", isLoading |-> TRUE, error |-> "null",
     location |-> "app"]

\* useState initial values of KanbanBoard, before the component is rendered
BoardUnmounted ==
    [variant |-> "none", pc |-> "unmounted", isLoading |-> TRUE,
     error |-> FALSE, tasks |-> << >>, activeTask |-> 0, dragging |-> 0,
     drops |-> 0]

IdleDrag == [pc |-> "idle", task |-> 0, status |-> ""]

---------------------------------------------------------------------------
Init ==
    /\ sessions = << >>
    /\ answers = {}
    /\ now = 0
    /\ reqs = [r \in Reqs |-> IdleReq]
    /\ impl \in Impls
    /\ calls = 0
    /\ auth = AuthUnmounted
    /\ board = BoardUnmounted
    /\ server = [t \in TaskIds |-> "backlog"]
    /\ drags = [h \in Handlers |-> IdleDrag]

Respond(r, resp) ==
    reqs' = [reqs EXCEPT ![r].pc = "respond", ![r].resp = resp]

\* a call is received by an idle worker slot
Receive(r, limit) ==
    /\ reqs[r].pc = "idle"
    /\ calls < limit
    /\ calls' = calls + 1

---------------------------------------------------------------------------
(* POST /api/quiz/start *)

\* mutant: the active-session check is skipped
StartRejected_never(cand, track) == FALSE

StartRejected(cand, track) == get_active_session(cand, track) # {}

\* steps 1-2: the active-session check and the block configuration
start_quiz(r, cand, track, limit) ==
    /\ Receive(r, limit)
    /\ LET req == [IdleReq EXCEPT !.op = "start", !.cand = cand,
                                  !.track = track]
       IN IF StartRejected(cand, track)
          THEN reqs' = [reqs EXCEPT ![r] =
                   [req EXCEPT !.pc = "respond", !.resp = ErrorResp(400)]]
          ELSE reqs' = [reqs EXCEPT ![r] = [req EXCEPT !.pc = "s_create"]]
    /\ UNCHANGED <<sessions, answers, now, impl, web>>

\* mutant: the session is created without the 15 minutes
NewSession_noduration(cand, track, t) ==
    [candidate_id |-> cand, track_id |-> track, status |-> "in_progress",
     started_at |-> t, expires_at |-> t, ended_at |-> NULL,
     total_questions |-> 0, correct_answers |-> 0, wrong_answers |-> 0,
     score |-> NULL]

NewSession(cand, track, t) ==
    [candidate_id |-> cand, track_id |-> track, status |-> "in_progress",
     started_at |-> t, expires_at |-> t + SessionMinutes, ended_at |-> NULL,
     total_questions |-> 0, correct_answers |-> 0, wrong_answers |-> 0,
     score |-> NULL]

\* step 3
create_quiz_session(r) ==
    /\ reqs[r].pc = "s_create"
    /\ sessions' = Append(sessions,
                          NewSession(reqs[r].cand, reqs[r].track, now))
    /\ reqs' = [reqs EXCEPT ![r].pc = "s_first",
                            ![r].sid = Len(sessions) + 1]
    /\ UNCHANGED <<answers, now, impl, calls, web>>

\* steps 4-5: track_blocks[0] and the random question of that block
first_question(r) ==
    /\ reqs[r].pc = "s_first"
    /\ LET track_blocks == get_track_quiz_blocks(reqs[r].track)
       IN IF track_blocks = << >>
          THEN Respond(r, ErrorResp(500))
          ELSE LET qs == get_random_question_from_block(
                             track_blocks[1].block_id, {})
               IN IF qs = {}
                  THEN Respond(r, ErrorResp(500))
                  ELSE \E q \in qs : Respond(r, StartedResp(q))
    /\ UNCHANGED <<sessions, answers, now, impl, calls, web>>

---------------------------------------------------------------------------
(* POST /api/quiz/answer *)

\* mutant: the comparison is strict
Expired_strict(t, expires_at) == t > expires_at

Expired(t, expires_at) == t >= expires_at

\* get_question and the comparison with correct_answer
Graded(req) ==
    IF req.qid \notin Questions
    THEN [req EXCEPT !.pc = "respond", !.resp = ErrorResp(500)]
    ELSE [req EXCEPT !.pc = "a_save",
                     !.is_correct =
                         (req.answer = QuestionBank[req.qid].correct_answer)]

\* design document, steps 1-3: the time check ends the call before grading
submit_answer_doc(r, sid, qid, answer, limit) ==
    /\ impl = "doc"
    /\ Receive(r, limit)
    /\ LET req == [IdleReq EXCEPT !.op = "answer", !.sid = sid, !.qid = qid,
                                  !.answer = answer]
       IN IF get_session(sid) = 0
          THEN reqs' = [reqs EXCEPT ![r] =
                   [req EXCEPT !.pc = "respond", !.resp = ErrorResp(404)]]
          ELSE IF Expired(now, sessions[sid].expires_at)
          THEN reqs' = [reqs EXCEPT ![r] =
                   [req EXCEPT !.pc = "fin_calc", !.expired = TRUE,
                               !.reason = "timeout"]]
          ELSE reqs' = [reqs EXCEPT ![r] = Graded(req)]
    /\ UNCHANGED <<sessions, answers, now, impl, web>>

\* FastAPI endpoint: time_expired is remembered, the answer is graded anyway
submit_answer_router(r, sid, qid, answer, limit) ==
    /\ impl = "router"
    /\ Receive(r, limit)
    /\ LET req == [IdleReq EXCEPT !.op = "answer", !.sid = sid, !.qid = qid,
                                  !.answer = answer]
       IN IF get_session(sid) = 0
          THEN reqs' = [reqs EXCEPT ![r] =
                   [req EXCEPT !.pc = "respond", !.resp = ErrorResp(404)]]
          ELSE reqs' = [reqs EXCEPT ![r] =
                   Graded([req EXCEPT !.expired =
                              Expired(now, sessions[sid].expires_at)])]
    /\ UNCHANGED <<sessions, answers, now, impl, web>>

\* mutant: the table has no UNIQUE constraint
UniqueViolation_off(sid, qid) == FALSE

\* UNIQUE (session_id, question_id) against the committed rows
UniqueViolation(sid, qid) ==
    \E a \in answers : a.session_id = sid /\ a.question_id = qid

\* CHECK (candidate_answer IN ('A', 'B', 'C', 'D'))
CheckViolation(answer) == answer \notin ValidOptions

\* mutant: concurrent inserts of one key do not wait for each other
InsertBlocked_never(r) == FALSE

\* the insert waits while another open transaction holds the same key
InsertBlocked(r) ==
    \E x \in Reqs \ {r} : /\ reqs[x].inserted
                          /\ reqs[x].sid = reqs[r].sid
                          /\ reqs[x].qid = reqs[r].qid

AnswerRow(req) ==
    [session_id |-> req.sid, question_id |-> req.qid,
     candidate_answer |-> req.answer, is_correct |-> req.is_correct]

\* mutant: the insert commits on its own, outside the transaction
save_answer_autocommit(r) ==
    /\ reqs[r].pc = "a_save"
    /\ ~InsertBlocked(r)
    /\ IF CheckViolation(reqs[r].answer)
          \/ UniqueViolation(reqs[r].sid, reqs[r].qid)
       THEN Respond(r, ErrorResp(500)) /\ answers' = answers
       ELSE /\ reqs' = [reqs EXCEPT ![r].pc = "a_stats"]
            /\ answers' = answers \cup {AnswerRow(reqs[r])}
    /\ UNCHANGED <<sessions, now, impl, calls, web>>

\* step 4: INSERT INTO quiz_answers, inside "async with db.begin()"
save_answer(r) ==
    /\ reqs[r].pc = "a_save"
    /\ ~InsertBlocked(r)
    /\ IF CheckViolation(reqs[r].answer)
          \/ UniqueViolation(reqs[r].sid, reqs[r].qid)
       THEN Respond(r, ErrorResp(500))
       ELSE reqs' = [reqs EXCEPT ![r].pc = "a_stats", ![r].inserted = TRUE]
    /\ UNCHANGED <<sessions, answers, now, impl, calls, web>>

Counted(s, is_correct) ==
    [s EXCEPT !.total_questions = @ + 1,
              !.correct_answers = IF is_correct THEN @ + 1 ELSE @,
              !.wrong_answers = IF is_correct THEN @ ELSE @ + 1]

\* step 5: the counters, then the transaction commits both writes together
update_session_stats(r) ==
    /\ reqs[r].pc = "a_stats"
    /\ answers' = IF reqs[r].inserted THEN answers \cup {AnswerRow(reqs[r])}
                  ELSE answers
    /\ sessions' = [sessions EXCEPT ![reqs[r].sid] =
                        Counted(@, reqs[r].is_correct)]
    /\ reqs' = [reqs EXCEPT
          ![r].inserted = FALSE,
          ![r].pc = IF impl = "router" /\ reqs[r].expired
                    THEN "fin_calc" ELSE "a_next",
          ![r].reason = IF impl = "router" /\ reqs[r].expired
                        THEN "timeout" ELSE ""]
    /\ UNCHANGED <<now, impl, calls, web>>

\* step 6: the next question, or the end of the quiz
next_question(r) ==
    /\ reqs[r].pc = "a_next"
    /\ LET qs == get_next_question(reqs[r].sid)
       IN IF qs = {}
          THEN reqs' = [reqs EXCEPT ![r].pc = "fin_calc",
                                    ![r].reason = "all_questions_answered"]
          ELSE \E q \in qs :
                   Respond(r, ContinueResp(
                       q, count_answered_questions(reqs[r].sid) + 1))
    /\ UNCHANGED <<sessions, answers, now, impl, calls, web>>

---------------------------------------------------------------------------
(* finalize_session *)

finalize_calc(r) ==
    /\ reqs[r].pc = "fin_calc"
    /\ reqs' = [reqs EXCEPT ![r].pc = "fin_update",
                            ![r].stats = calculate_stats(reqs[r].sid)]
    /\ UNCHANGED <<sessions, answers, now, impl, calls, web>>

\* mutant: :wrong is bound to the total
Finalized_wrong(s, stats, at) ==
    [s EXCEPT !.status = "completed", !.ended_at = at,
              !.score = stats.score, !.total_questions = stats.total,
              !.correct_answers = stats.correct,
              !.wrong_answers = stats.total]

\* mutant: the UPDATE has no "score = :score"
Finalized_noscore(s, stats, at) ==
    [s EXCEPT !.status = "completed", !.ended_at = at,
              !.total_questions = stats.total,
              !.correct_answers = stats.correct,
              !.wrong_answers = stats.wrong]

Finalized(s, stats, at) ==
    [s EXCEPT !.status = "completed", !.ended_at = at,
              !.score = stats.score, !.total_questions = stats.total,
              !.correct_answers = stats.correct,
              !.wrong_answers = stats.wrong]

finalize_update(r) ==
    /\ reqs[r].pc = "fin_update"
    /\ sessions' = [sessions EXCEPT ![reqs[r].sid] =
                        Finalized(@, reqs[r].stats, now)]
    /\ Respond(r, EndResp(reqs[r].reason))
    /\ UNCHANGED <<answers, now, impl, calls, web>>

---------------------------------------------------------------------------
(* Environment *)

Return(r) ==
    /\ reqs[r].pc = "respond"
    /\ reqs' = [reqs EXCEPT ![r] = IdleReq]
    /\ UNCHANGED <<sessions, answers, now, impl, calls, web>>

\* the worker dies in the middle of a call: an open transaction rolls back
Crash(r) ==
    /\ reqs[r].pc \notin {"idle", "respond", "down"}
    /\ reqs' = [reqs EXCEPT ![r] = [IdleReq EXCEPT !.pc = "down"]]
    /\ UNCHANGED <<sessions, answers, now, impl, calls, web>>

\* the worker is started again
Restart(r) ==
    /\ reqs[r].pc = "down"
    /\ reqs' = [reqs EXCEPT ![r] = IdleReq]
    /\ UNCHANGED <<sessions, answers, now, impl, calls, web>>

\* the clock is observed once per session length, between calls
Tick ==
    /\ \A r \in Reqs : reqs[r].pc = "idle"
    /\ now < MaxTicks * SessionMinutes
    /\ now' = now + SessionMinutes
    /\ UNCHANGED <<sessions, answers, reqs, impl, calls, web>>

Step(r, tracks, qids, labels, limit) ==
    \/ \E c \in Candidates, t \in tracks : start_quiz(r, c, t, limit)
    \/ create_quiz_session(r)
    \/ first_question(r)
    \/ \E sid \in 1..(Len(sessions) + 1), qid \in qids, a \in labels :
          submit_answer_doc(r, sid, qid, a, limit)
    \/ \E sid \in 1..(Len(sessions) + 1), qid \in qids, a \in labels :
          submit_answer_router(r, sid, qid, a, limit)
    \/ save_answer(r)
    \/ update_session_stats(r)
    \/ next_question(r)
    \/ finalize_calc(r)
    \/ finalize_update(r)
    \/ Return(r)
    \/ Crash(r)
    \/ Restart(r)

\* calls arrive one at a time
Next ==
    \/ Tick
    \/ \E r \in SeqReqs :
          Step(r, Tracks, Questions \cup {UnknownQuestion}, AnswerInputs,
               MaxCalls)

Spec == Init /\ [][Next]_vars

\* calls of two clients interleave at every await
NextConc ==
    \/ Tick
    \/ \E r \in Reqs :
          Step(r, ConcTracks, ConcQuestions, ConcInputs, MaxConcCalls)

SpecConc == Init /\ [][NextConc]_vars

---------------------------------------------------------------------------
(* Properties *)

Counters(s) == <<s.total_questions, s.correct_answers, s.wrong_answers>>

RowsOf(rows, sid) == {a \in rows : a.session_id = sid}

\* an answer call in flight (or answered) for an existing session
AnswerCall(r) == reqs[r].op = "answer" /\ reqs[r].sid \in SessionIds

\* the call started with now >= expires_at (the clock stands still in a call)
Late(r) == AnswerCall(r) /\ now >= sessions[reqs[r].sid].expires_at

C2_TimeoutPathPersistsNothing ==
    [][\A r \in Reqs :
          (Late(r) /\ reqs[r].pc # "respond") =>
              /\ RowsOf(answers', reqs[r].sid) = RowsOf(answers, reqs[r].sid)
              /\ Counters(sessions'[reqs[r].sid])
                    = Counters(sessions[reqs[r].sid])]_vars

UniqueRows ==
    \A a, b \in answers :
        (a.session_id = b.session_id /\ a.question_id = b.question_id)
            => a = b

CountersRise(s) ==
    \/ sessions'[s].total_questions > sessions[s].total_questions
    \/ sessions'[s].correct_answers > sessions[s].correct_answers
    \/ sessions'[s].wrong_answers > sessions[s].wrong_answers

\* C3: there is at most one quiz_answers row per (session, question), and a
\* counter of a session rises only in a step that adds a row for a
\* (session, question) pair that had none: a repeated submission counts
\* nothing.
C3_OneRowPerQuestion ==
    /\ []UniqueRows
    /\ [][\A s \in SessionIds :
             CountersRise(s) =>
                 \E a \in answers' \ answers :
                     /\ a.session_id = s
                     /\ ~\E b \in answers :
                            /\ b.session_id = s
                            /\ b.question_id = a.question_id]_vars

\* a repeated, well-formed submission was refused
C3_Witness ==
    \E r \in Reqs :
        /\ AnswerCall(r) /\ reqs[r].pc = "respond"
        /\ reqs[r].resp = ErrorResp(500)
        /\ reqs[r].answer \in ValidOptions
        /\ \E a \in answers : /\ a.session_id = reqs[r].sid
                              /\ a.question_id = reqs[r].qid
        /\ sessions[reqs[r].sid].total_questions >= 1

\* C4: when answer calls of one session interleave, no counter of the
\* session exceeds the number of distinct questions with a row: a question
\* answered by two concurrent calls is counted once.
C4_ConcurrentCountedOnce ==
    \A s \in SessionIds :
        /\ sessions[s].total_questions
              <= Cardinality(get_answered_question_ids(s))
        /\ sessions[s].correct_answers
              <= Cardinality({a.question_id :
                                a \in {x \in SessionAnswers(s) : x.is_correct}})
        /\ sessions[s].wrong_answers
              <= Cardinality({a.question_id :
                                a \in {x \in SessionAnswers(s) : ~x.is_correct}})

\* two interleaved calls answered the same question: one counted, one refused
C4_Witness ==
    /\ AnswerCall(1) /\ AnswerCall(2)
    /\ reqs[1].sid = reqs[2].sid /\ reqs[1].qid = reqs[2].qid
    /\ reqs[1].pc = "respond" /\ reqs[2].pc = "respond"
    /\ reqs[1].resp.type = "continue"
    /\ reqs[2].resp = ErrorResp(500)
    /\ sessions[reqs[1].sid].total_questions = 1

RECURSIVE SumRequired(_)
SumRequired(blocks) ==
    IF blocks = << >> THEN 0
    ELSE Head(blocks).questions_count + SumRequired(Tail(blocks))

\* C6: the number of answered questions of a session never exceeds the sum
\* of questions_count over the blocks of its track.
C6_AnsweredWithinRequired ==
    \A s \in SessionIds :
        Cardinality(SessionAnswers(s))
            <= SumRequired(get_track_quiz_blocks(sessions[s].track_id))

\* C7: a start call received while the candidate has an in_progress session
\* of the track is answered with the error 400 "Active quiz session already
\* exists" at once, and neither that step nor the rest of the call adds a
\* session.
C7_DuplicateStartRejected ==
    [][\A r \in Reqs :
          /\ (/\ reqs[r].pc = "idle"
              /\ reqs'[r].op = "start"
              /\ get_active_session(reqs'[r].cand, reqs'[r].track) # {})
                 => /\ reqs'[r].pc = "respond"
                    /\ reqs'[r].resp = ErrorResp(400)
                    /\ sessions' = sessions
          /\ (/\ reqs[r].op = "start"
              /\ reqs[r].pc = "respond"
              /\ reqs[r].resp = ErrorResp(400))
                 => sessions' = sessions]_vars

C7_Witness ==
    \E r \in Reqs :
        /\ reqs[r].op = "start" /\ reqs[r].pc = "respond"
        /\ reqs[r].resp = ErrorResp(400)
        /\ get_active_session(reqs[r].cand, reqs[r].track) # {}
        /\ Len(sessions) = 1

\* C8: a completed session stays completed, and no step adds a quiz_answers
\* row to it or changes its counters.
C8_CompletedIsFinal ==
    [][\A s \in SessionIds :
          sessions[s].status = "completed" =>
              /\ sessions'[s].status = "completed"
              /\ RowsOf(answers', s) = RowsOf(answers, s)
              /\ Counters(sessions'[s]) = Counters(sessions[s])]_vars

\* C9: finalize_session applied to a completed session leaves the counters
\* and the score as the earlier finalization set them (score is written by
\* finalization only).
C9_FinalizeIdempotent ==
    [][\A r \in Reqs :
          (/\ reqs[r].pc = "fin_update"
           /\ reqs'[r].pc = "respond"
           /\ sessions[reqs[r].sid].status = "completed")
              => /\ sessions'[reqs[r].sid].score = sessions[reqs[r].sid].score
                 /\ Counters(sessions'[reqs[r].sid])
                       = Counters(sessions[reqs[r].sid])]_vars

Continued(r) ==
    AnswerCall(r) /\ reqs[r].pc = "respond" /\ reqs[r].resp.type = "continue"

TrackBlocks(s) == get_track_quiz_blocks(sessions[s].track_id)

\* block j of the track is full, or has no active unanswered question left
BlockDone(s, cfg) ==
    \/ count_block_questions_in_session(s, cfg.block_id) >= cfg.questions_count
    \/ get_random_question_from_block(
           cfg.block_id, get_answered_question_ids(s)) = {}

\* C11: every session has expires_at = started_at + 15 minutes, and no step
\* (answer call, finalization, crash) changes started_at or expires_at of an
\* existing session.
C11_ExpiryFixed ==
    /\ [](\A s \in SessionIds :
             sessions[s].expires_at = sessions[s].started_at + SessionMinutes)
    /\ [][\A s \in SessionIds :
             /\ sessions'[s].started_at = sessions[s].started_at
             /\ sessions'[s].expires_at = sessions[s].expires_at]_vars

\* a session started after the clock moved was answered and finalized
C11_Witness ==
    \E s \in SessionIds :
        /\ sessions[s].status = "completed"
        /\ sessions[s].started_at = SessionMinutes
        /\ sessions[s].expires_at = 2 * SessionMinutes
        /\ sessions[s].total_questions >= 1

\* C12: the next question of a continuation belongs to a configured block of
\* the track, and every block configured before it is full (answered count
\* >= questions_count) or has no active unanswered question left.
C12_BlocksInOrder ==
    \A r \in Reqs :
        Continued(r) =>
            LET s == reqs[r].sid
                blocks == TrackBlocks(s)
                q == reqs[r].resp.question
            IN \E i \in 1..Len(blocks) :
                   /\ blocks[i].block_id = QuestionBank[q].block_id
                   /\ \A j \in 1..(i - 1) : BlockDone(s, blocks[j])

\* the second block gives the question because the first one ran out of
\* active questions below its questions_count
C12_Witness ==
    \E r \in Reqs :
        /\ Continued(r)
        /\ LET s == reqs[r].sid
               blocks == TrackBlocks(s)
           IN /\ Len(blocks) = 2
              /\ QuestionBank[reqs[r].resp.question].block_id
                     = blocks[2].block_id
              /\ count_block_questions_in_session(s, blocks[1].block_id)
                     < blocks[1].questions_count

\* C13: the next question of a continuation is an active question of a
\* block that still lacks questions, and it has no quiz_answers row in the
\* session: an answered question is not issued again.
C13_NextIsFreshAndActive ==
    \A r \in Reqs :
        Continued(r) =>
            LET s == reqs[r].sid
                q == reqs[r].resp.question
            IN /\ q \in Questions
               /\ QuestionBank[q].is_active
               /\ q \notin get_answered_question_ids(s)
               /\ \E i \in 1..Len(TrackBlocks(s)) :
                      /\ TrackBlocks(s)[i].block_id = QuestionBank[q].block_id
                      /\ count_block_questions_in_session(
                             s, QuestionBank[q].block_id)
                            < TrackBlocks(s)[i].questions_count

\* the block of the next question already has an answered active question
C13_Witness ==
    \E r \in Reqs :
        /\ Continued(r)
        /\ \E a \in SessionAnswers(reqs[r].sid) :
               /\ QuestionBank[a.question_id].is_active
               /\ QuestionBank[a.question_id].block_id
                      = QuestionBank[reqs[r].resp.question].block_id

\* C14: the question of every quiz_answers row belongs to a block configured
\* for the track of the row's session.
C14_AnswersWithinTrack ==
    \A a \in answers :
        \E i \in 1..Len(TrackBlocks(a.session_id)) :
            TrackBlocks(a.session_id)[i].block_id
                = QuestionBank[a.question_id].block_id

ActiveIn(block_id) ==
    {q \in Questions : QuestionBank[q].block_id = block_id
                         /\ QuestionBank[q].is_active}

\* what block cfg can contribute: min(questions_count, active questions)
Quota(cfg) ==
    IF cfg.questions_count < Cardinality(ActiveIn(cfg.block_id))
    THEN cfg.questions_count ELSE Cardinality(ActiveIn(cfg.block_id))

RECURSIVE Capacity(_)
Capacity(blocks) ==
    IF blocks = << >> THEN 0
    ELSE Quota(Head(blocks)) + Capacity(Tail(blocks))

\* the rows a client leaves that always answers a question it was issued:
\* active questions of the track's blocks, the blocks filled in order
Orderly(s) ==
    LET blocks == TrackBlocks(s)
        n(i) == count_block_questions_in_session(s, blocks[i].block_id)
    IN /\ \A a \in SessionAnswers(s) :
              /\ QuestionBank[a.question_id].is_active
              /\ \E i \in 1..Len(blocks) :
                     blocks[i].block_id = QuestionBank[a.question_id].block_id
       /\ \A i \in 1..Len(blocks) :
              /\ n(i) <= Quota(blocks[i])
              /\ n(i) > 0 => \A j \in 1..(i - 1) : n(j) = Quota(blocks[j])

\* an answer call that started before expires_at and saved its answer
SavedInTime(r) ==
    /\ AnswerCall(r) /\ reqs[r].pc = "respond"
    /\ reqs[r].resp.type \in {"continue", "end"}
    /\ now < sessions[reqs[r].sid].expires_at

\* C15: for a client that answers the questions it is issued, before
\* expires_at: while fewer than the sum over the track's blocks of
\* min(questions_count, active questions) answers are saved the call
\* continues, and the call that saves exactly that many finalizes the
\* session and returns the termination "all_questions_answered".
C15_EndsAfterCapacity ==
    \A r \in Reqs :
        (SavedInTime(r) /\ Orderly(reqs[r].sid)) =>
            LET s == reqs[r].sid
            IN IF Cardinality(SessionAnswers(s)) = Capacity(TrackBlocks(s))
               THEN /\ reqs[r].resp = EndResp("all_questions_answered")
                    /\ sessions[s].status = "completed"
                    /\ sessions[s].ended_at = now
               ELSE /\ reqs[r].resp.type = "continue"
                    /\ Cardinality(SessionAnswers(s)) < Capacity(TrackBlocks(s))

\* the quiz ended below the sum of questions_count: a block ran out
C15_Witness ==
    \E r \in Reqs :
        /\ SavedInTime(r) /\ Orderly(reqs[r].sid)
        /\ reqs[r].resp = EndResp("all_questions_answered")
        /\ Cardinality(SessionAnswers(reqs[r].sid)) = 2
        /\ SumRequired(TrackBlocks(reqs[r].sid)) = 3

\* the step of finalize_session that writes the session
Finalizes(r) == reqs[r].pc = "fin_update" /\ reqs'[r].pc = "respond"

\* score (in hundredths of a percent) is 100 * correct / total, rounded
IsPercentage(score, correct, total) ==
    IF total = 0 THEN score = 0
    ELSE /\ 2 * (score * total - 10000 * correct) <= total
         /\ 2 * (10000 * correct - score * total) <= total

RECURSIVE SumTotal(_)
SumTotal(entries) ==
    IF entries = {} THEN 0
    ELSE LET x == CHOOSE x \in entries : TRUE
         IN x.total + SumTotal(entries \ {x})

RECURSIVE SumCorrect(_)
SumCorrect(entries) ==
    IF entries = {} THEN 0
    ELSE LET x == CHOOSE x \in entries : TRUE
         IN x.correct + SumCorrect(entries \ {x})

\* a termination response of an answer call, as the client receives it
Ended(r) ==
    AnswerCall(r) /\ reqs[r].pc = "respond" /\ reqs[r].resp.type = "end"

\* C17: in the results of a termination, blocks_performance has exactly one
\* entry for each block with an answered question in the session and none
\* for other blocks; the entry's total and correct are the numbers of that
\* block's answered and correctly answered questions; the totals sum to
\* total_questions and the corrects to correct_answers.
C17_BlockBreakdown ==
    \A r \in Reqs :
        Ended(r) =>
            LET s == reqs[r].sid
                res == calculate_results(s)
                of(b) == {x \in res.blocks_performance :
                             x.block_name = BlockName[b]}
                rows(b) == {a \in SessionAnswers(s) :
                               QuestionBank[a.question_id].block_id = b}
            IN /\ \A b \in DOMAIN BlockName :
                      IF rows(b) = {} THEN of(b) = {}
                      ELSE /\ Cardinality(of(b)) = 1
                           /\ \A x \in of(b) :
                                  /\ x.total = Cardinality(rows(b))
                                  /\ x.correct = Cardinality(
                                         {a \in rows(b) : a.is_correct})
               /\ \A x \in res.blocks_performance :
                      \E b \in DOMAIN BlockName : x.block_name = BlockName[b]
               /\ SumTotal(res.blocks_performance) = res.total_questions
               /\ SumCorrect(res.blocks_performance) = res.correct_answers

\* the two-block scenario: total 3, correct 2, wrong 1, A 1/2, B 1/1
C17_Witness ==
    \E r \in Reqs :
        /\ Ended(r)
        /\ reqs[r].resp.reason = "all_questions_answered"
        /\ calculate_results(reqs[r].sid) =
              [total_questions |-> 3, correct_answers |-> 2,
               wrong_answers |-> 1,
               blocks_performance |->
                   {[block_name |-> "A", total |-> 2, correct |-> 1],
                    [block_name |-> "B", total |-> 1, correct |-> 1]}]

\* a successful start call, as the client receives it
Started(r) ==
    /\ reqs[r].op = "start" /\ reqs[r].pc = "respond"
    /\ reqs[r].resp.type = "started"

C19_NoBlocksIsConfigurationError ==
    \A r \in Reqs :
        (/\ reqs[r].op = "start" /\ reqs[r].pc = "respond"
         /\ get_track_quiz_blocks(reqs[r].track) = << >>)
            => reqs[r].resp = ErrorResp(500)

\* C20: no step of an answer call with a malformed option label changes the
\* session (status, counters, score, ended_at) or its quiz_answers rows,
\* and the call is answered with an error.
C20_MalformedRejected ==
    [][\A r \in Reqs :
          (AnswerCall(r) /\ reqs[r].answer \notin ValidOptions) =>
              /\ sessions'[reqs[r].sid] = sessions[reqs[r].sid]
              /\ RowsOf(answers', reqs[r].sid) = RowsOf(answers, reqs[r].sid)
              /\ reqs'[r].pc = "respond" => reqs'[r].resp.type = "error"]_vars

\* an answer call that names a session or a question that does not exist
UnknownCall(r) ==
    /\ reqs[r].op = "answer"
    /\ (reqs[r].sid \notin SessionIds \/ reqs[r].qid \notin Questions)

\* C21: no step of an answer call that names an unknown session or an
\* unknown question changes quiz_sessions or quiz_answers, and the call is
\* answered with the NotFound error (404).
C21_UnknownIsNotFound ==
    [][\A r \in SeqReqs :
          UnknownCall(r)' =>
              /\ sessions' = sessions
              /\ answers' = answers
              /\ reqs'[r].pc = "respond" => reqs'[r].resp = ErrorResp(404)]_vars

\* C27: for every candidate and track at most one session is in_progress,
\* in every reachable state of interleaved start calls.
C27_OneActiveSession ==
    \A c \in Candidates, t \in Tracks :
        Cardinality(get_active_session(c, t)) <= 1

\* a start call that was not rejected as a duplicate and ended in an error
FailedStart(r) ==
    /\ reqs[r].op = "start"
    /\ reqs[r].pc = "respond"
    /\ reqs[r].resp = ErrorResp(500)

\* C28: a start call that fails (no configured blocks, or no active question
\* in the first block) has created no session, and the candidate has no
\* in_progress session for the track that would reject a later start.
C28_FailedStartLeavesNothing ==
    \A r \in SeqReqs :
        FailedStart(r) =>
            /\ reqs[r].sid \notin SessionIds
            /\ get_active_session(reqs[r].cand, reqs[r].track) = {}

---------------------------------------------------------------------------
(* Late detection of the timeout *)

MaxLateCalls == 3
MaxLateTicks == 2

\* nobody calls for more than one session length
TickLate ==
    /\ \A r \in Reqs : reqs[r].pc = "idle"
    /\ now < MaxLateTicks * SessionMinutes
    /\ now' = now + SessionMinutes
    /\ UNCHANGED <<sessions, answers, reqs, impl, calls, web>>

NextLate ==
    \/ TickLate
    \/ \E r \in SeqReqs :
          Step(r, ConcTracks, ConcQuestions, ConcInputs, MaxLateCalls)

SpecLate == Init /\ [][NextLate]_vars

\* "completion_time_seconds" of the results: end - start
completion_time_seconds(sid) ==
    60 * (sessions[sid].ended_at - sessions[sid].started_at)

\* C29: every finalized session has completion_time_seconds <= 900, the
\* fixed session duration, whenever the timeout is detected.
C29_CompletionWithinDuration ==
    \A s \in SessionIds :
        sessions[s].status = "completed" =>
            completion_time_seconds(s) <= 60 * SessionMinutes

---------------------------------------------------------------------------
(* Recruiter web app: AuthProvider *)

MaxDrags == 2

\* isUnauthorizedError(error): the Axios-style test shadows the Ory-style one
isUnauthorizedError(error) ==
    IF error.has_response THEN error.response_status = 401
    ELSE IF error.has_status THEN error.status = 401
    ELSE FALSE

\* try block of checkSession after toSession() has resolved, and finally
CheckPassed(a) ==
    [a EXCEPT !.user = "ory", !.error = "null", !.isLoading = FALSE,
              !.pc = "done"]

\* catch block of checkSession, and finally
CheckFailed(a, err) ==
    IF a.variant = "part_002" /\ ~isUnauthorizedError(err)
    THEN [a EXCEPT !.error = "message", !.user = "null",
                   !.isLoading = FALSE, !.pc = "done"]
    ELSE [a EXCEPT !.location = "login", !.isLoading = FALSE, !.pc = "done"]

\* the effect of AuthProvider runs checkSession up to its await
checkSession(variant, enabled, client) ==
    /\ auth.pc = "unmounted"
    /\ LET a == [auth EXCEPT !.variant = variant, !.enabled = enabled]
       IN auth' = IF ~enabled
                  THEN [a EXCEPT !.user = "mock", !.isLoading = FALSE,
                                 !.pc = "done"]
                  ELSE IF ~client
                  THEN [a EXCEPT !.user = "null", !.isLoading = FALSE,
                                 !.pc = "done"]
                  ELSE [a EXCEPT !.pc = "toSession"]
    /\ UNCHANGED <<quiz, board, server, drags>>

checkSession_resolved ==
    /\ auth.pc = "toSession"
    /\ auth' = CheckPassed(auth)
    /\ UNCHANGED <<quiz, board, server, drags>>

checkSession_rejected(err) ==
    /\ auth.pc = "toSession"
    /\ auth' = CheckFailed(auth, err)
    /\ UNCHANGED <<quiz, board, server, drags>>

\* what AppContent and UserMenu render
AppContent(a) == IF a.isLoading THEN "loading" ELSE "board"

UserMenu(a) ==
    IF a.isLoading THEN "loading"
    ELSE IF a.user = "null" THEN "null"
    ELSE "menu"

\* handleLogout of the user menu; ok: createBrowserLogoutFlow() resolved
logout(ok) ==
    /\ auth.location = "app"
    /\ UserMenu(auth) = "menu"
    /\ auth' = IF ~auth.enabled THEN [auth EXCEPT !.user = "null"]
               ELSE IF ok THEN [auth EXCEPT !.location = "logout"]
               ELSE auth
    /\ UNCHANGED <<quiz, board, server, drags>>

---------------------------------------------------------------------------
(* Recruiter web app: KanbanBoard *)

\* the page is open and AppContent renders <KanbanBoard />
Shown == auth.location = "app" /\ AppContent(auth) = "board"

\* GET /tasks as the server answers it now
ServerList ==
    [i \in 1..Cardinality(TaskIds) |->
        [id |-> i, status |-> server[i], created_at |-> CreatedAt[i]]]

\* getTasks(): the list, or [] for a body without a tasks array
getTasks(outcome) == IF outcome = "ok" THEN ServerList ELSE << >>

HasTask(tasks, id) == \E i \in 1..Len(tasks) : tasks[i].id = id

\* tasks.find((t) => t.id === id), for a list that has the task
FindTask(tasks, id) ==
    tasks[CHOOSE i \in 1..Len(tasks) : tasks[i].id = id]

\* prevTasks.map((t) => t.id === id ? {...t, status} : t)
WithStatus(tasks, id, status) ==
    [i \in 1..Len(tasks) |->
        IF tasks[i].id = id THEN [tasks[i] EXCEPT !.status = status]
        ELSE tasks[i]]

\* the comparator given to sort; a missing date is 0, NaN counts as 0
compare(variant, a, b) ==
    IF a.created_at = 0 \/ b.created_at = 0 THEN 0
    ELSE IF variant = "v2" THEN a.created_at - b.created_at
    ELSE b.created_at - a.created_at

\* Array.prototype.sort is stable: x goes behind everything not after it
RECURSIVE Insert(_, _, _)
Insert(variant, sorted, x) ==
    IF sorted = << >> THEN <<x>>
    ELSE IF compare(variant, Head(sorted), x) <= 0
    THEN <<Head(sorted)>> \o Insert(variant, Tail(sorted), x)
    ELSE <<x>> \o sorted

RECURSIVE sort(_, _)
sort(variant, list) ==
    IF list = << >> THEN << >>
    ELSE Insert(variant, sort(variant, SubSeq(list, 1, Len(list) - 1)),
                list[Len(list)])

tasksByStatus(variant, tasks) ==
    [s \in TaskStatuses |->
        sort(variant, SelectSeq(tasks, LAMBDA t : t.status = s))]

\* the component is rendered for the first time: the effect calls loadTasks
KanbanBoard(variant) ==
    /\ Shown
    /\ board.pc = "unmounted"
    /\ board' = [board EXCEPT !.variant = variant, !.pc = "loading"]
    /\ UNCHANGED <<quiz, auth, server, drags>>

\* loadTasks after getTasks() has settled
loadTasks(outcome) ==
    /\ Shown
    /\ board.pc = "loading"
    /\ board' = IF outcome = "fail"
                THEN [board EXCEPT !.error = TRUE, !.isLoading = FALSE,
                                   !.pc = "ready"]
                ELSE [board EXCEPT !.tasks = getTasks(outcome),
                                   !.isLoading = FALSE, !.pc = "ready"]
    /\ UNCHANGED <<quiz, auth, server, drags>>

\* the retry button of the error screen (v2: onClick={loadTasks})
retry ==
    /\ Shown
    /\ board.pc = "ready" /\ board.error /\ board.variant = "v2"
    /\ board' = [board EXCEPT !.error = FALSE, !.isLoading = TRUE,
                              !.pc = "loading"]
    /\ UNCHANGED <<quiz, auth, server, drags>>

\* the DndContext is rendered
Draggable == Shown /\ board.pc = "ready" /\ ~board.error

FreeHandlers == {h \in Handlers : drags[h].pc = "idle"}

handleDragStart(id, limit) ==
    /\ Draggable
    /\ board.dragging = 0
    /\ board.drops < limit
    /\ FreeHandlers # {}
    /\ HasTask(board.tasks, id)
    /\ board' = [board EXCEPT !.dragging = id, !.activeTask = id,
                              !.drops = @ + 1]
    /\ UNCHANGED <<quiz, auth, server, drags>>

\* v1 only: the status of the column or of the card under the pointer
handleDragOver(over) ==
    /\ Draggable
    /\ board.dragging # 0
    /\ board.variant = "v1"
    /\ LET newStatus ==
               IF over.type = "column" THEN over.column
               ELSE IF over.type = "task" /\ HasTask(board.tasks, over.task)
               THEN FindTask(board.tasks, over.task).status
               ELSE ""
       IN board' = IF newStatus = "" THEN board
                   ELSE [board EXCEPT !.tasks =
                            WithStatus(@, board.dragging, newStatus)]
    /\ UNCHANGED <<quiz, auth, server, drags>>

\* mutant: the comparison with the task's current status is missing
DropRequest_nocompare(variant, tasks, activeId, over) ==
    IF over.type = "none" THEN ""
    ELSE IF ~HasTask(tasks, activeId) THEN ""
    ELSE IF variant = "v1" THEN FindTask(tasks, activeId).status
    ELSE IF over.type # "column" THEN ""
    ELSE over.column

\* handleDragEnd up to its request: the status it sends, "" when it returns
DropRequest(variant, tasks, activeId, over) ==
    IF over.type = "none" THEN ""
    ELSE IF ~HasTask(tasks, activeId) THEN ""
    ELSE IF variant = "v1" THEN FindTask(tasks, activeId).status
    ELSE IF over.type # "column" THEN ""
    ELSE IF FindTask(tasks, activeId).status = over.column THEN ""
    ELSE over.column

\* mutant: the request is sent without the local update
Dropped_nolocal(b, status) ==
    [b EXCEPT !.activeTask = 0, !.dragging = 0]

\* setActiveTask(null) and the optimistic setTasks
Dropped(b, status) ==
    [b EXCEPT !.activeTask = 0, !.dragging = 0,
              !.tasks = IF status = "" THEN @
                        ELSE WithStatus(@, b.dragging, status)]

handleDragEnd(over) ==
    /\ Draggable
    /\ board.dragging # 0
    /\ LET status == DropRequest(board.variant, board.tasks,
                                 board.dragging, over)
           h == CHOOSE f \in FreeHandlers : \A g \in FreeHandlers : f <= g
       IN /\ board' = Dropped(board, status)
          /\ drags' = IF status = "" THEN drags
                      ELSE [drags EXCEPT ![h] =
                               [pc |-> "patch", task |-> board.dragging,
                                status |-> status]]
    /\ UNCHANGED <<quiz, auth, server>>

handleDragCancel ==
    /\ Draggable
    /\ board.dragging # 0
    /\ board' = [board EXCEPT !.activeTask = 0, !.dragging = 0]
    /\ UNCHANGED <<quiz, auth, server, drags>>

\* PATCH /tasks/{id}: applied and answered, refused, or applied with the
\* response lost on the way back
updateTaskStatus(h, outcome) ==
    /\ drags[h].pc = "patch"
    /\ server' = IF outcome = "fail" THEN server
                 ELSE [server EXCEPT ![drags[h].task] = drags[h].status]
    /\ drags' = IF outcome = "ok" THEN [drags EXCEPT ![h] = IdleDrag]
                ELSE [drags EXCEPT ![h].pc = "reload"]
    /\ UNCHANGED <<quiz, auth, board>>

\* mutant: the reloaded list is dropped
Reloaded_keep(b, outcome) == b

\* catch block of handleDragEnd: setTasks(await getTasks())
Reloaded(b, outcome) ==
    IF outcome = "fail" THEN b ELSE [b EXCEPT !.tasks = getTasks(outcome)]

reload(h, outcome) ==
    /\ drags[h].pc = "reload"
    /\ board' = Reloaded(board, outcome)
    /\ drags' = [drags EXCEPT ![h] = IdleDrag]
    /\ UNCHANGED <<quiz, auth, server>>

NextWeb ==
    \/ \E v \in AuthVariants, enabled \in BOOLEAN, client \in BOOLEAN :
          checkSession(v, enabled, client)
    \/ checkSession_resolved
    \/ \E err \in ErrorShapes : checkSession_rejected(err)
    \/ \E ok \in BOOLEAN : logout(ok)
    \/ \E v \in BoardVariants : KanbanBoard(v)
    \/ \E o \in GetOutcomes : loadTasks(o)
    \/ retry
    \/ \E t \in TaskIds : handleDragStart(t, MaxDrags)
    \/ \E over \in Overs : handleDragOver(over)
    \/ \E over \in Overs : handleDragEnd(over)
    \/ handleDragCancel
    \/ \E h \in Handlers, o \in PatchOutcomes : updateTaskStatus(h, o)
    \/ \E h \in Handlers, o \in GetOutcomes : reload(h, o)

SpecWeb == Init /\ [][NextWeb]_vars

---------------------------------------------------------------------------
(* Properties of the recruiter web app *)

\* C22: in every column of the board the cards are ordered newest first:
\* of two cards of one status that both have a creation date, the one
\* created later stands before the one created earlier.
C22_NewestOnTop ==
    \A s \in TaskStatuses :
        LET column == tasksByStatus(board.variant, board.tasks)[s]
        IN \A i, j \in 1..Len(column) :
               (/\ column[i].created_at # 0 /\ column[j].created_at # 0
                /\ column[i].created_at > column[j].created_at) => i < j

\* versions of the board without handleDragOver (lines 225-456, 458-661)
DropOnly == board.variant \in {"v2", "v3"}

\* the dragged card exists and is dropped on a column other than its own
RealDrop(over) ==
    /\ over.type = "column"
    /\ HasTask(board.tasks, board.dragging)
    /\ FindTask(board.tasks, board.dragging).status # over.column

\* C23: a drop on a column with another status sets that status locally
\* and sends updateTaskStatus with it in the same step, before the server
\* has changed; a handler whose updateTaskStatus failed goes on to getTasks,
\* and a successful reload makes the local list the server's list.
C23_OptimisticThenReload ==
    [][DropOnly =>
          /\ \A over \in Overs :
                 (handleDragEnd(over) /\ RealDrop(over)) =>
                     /\ FindTask(board'.tasks, board.dragging).status
                            = over.column
                     /\ \E h \in Handlers :
                            /\ drags[h].pc = "idle"
                            /\ drags'[h] = [pc |-> "patch",
                                            task |-> board.dragging,
                                            status |-> over.column]
                     /\ server' = server
          /\ \A h \in Handlers :
                 /\ (drags[h].pc = "patch" /\ drags'[h].pc = "idle") =>
                        server'[drags[h].task] = drags[h].status
                 /\ (drags[h].pc = "patch" /\ drags'[h].pc # "patch") =>
                        board' = board
                 /\ reload(h, "ok") => board'.tasks = ServerList]_vars

\* the update of a drop was refused: the optimistic status stands locally,
\* the server holds another one, and the reload is pending
C23_Witness ==
    \E h \in Handlers :
        /\ DropOnly
        /\ drags[h].pc = "reload"
        /\ HasTask(board.tasks, drags[h].task)
        /\ FindTask(board.tasks, drags[h].task).status = drags[h].status
        /\ server[drags[h].task] # drags[h].status

\* a rejection that carries the HTTP status 401
Is401(err) == err.response_status = 401 \/ err.status = 401

\* C24: with auth enabled, checkSession ends with isLoading false on every
\* path; a rejected toSession() with status 401 redirects to the login URL
\* and sets no error, any other rejection sets error and user = null and
\* does not redirect, and a resolved toSession() sets user and clears error.
C24_CheckSessionByKind ==
    [][/\ (auth.pc # "done" /\ auth'.pc = "done") => ~auth'.isLoading
       /\ checkSession_resolved =>
              auth'.user # "null" /\ auth'.error = "null"
       /\ \A err \in ErrorShapes :
              checkSession_rejected(err) =>
                  IF Is401(err)
                  THEN auth'.location = "login" /\ auth'.error = "null"
                  ELSE /\ auth'.error # "null"
                       /\ auth'.user = "null"
                       /\ auth'.location = "app"]_vars

\* the drag ends without a drop: nothing under the pointer, no such task,
\* a target that is not a column, or the column the task is already in
NoDrop(over) ==
    \/ over.type # "column"
    \/ ~HasTask(board.tasks, board.dragging)
    \/ FindTask(board.tasks, board.dragging).status = over.column

\* C25: a handleDragEnd without a drop, and handleDragCancel, only reset
\* activeTask: no task changes and no updateTaskStatus request is sent.
C25_NoDropChangesNothing ==
    [][DropOnly =>
          /\ \A over \in Overs :
                 (handleDragEnd(over) /\ NoDrop(over)) =>
                     /\ board'.tasks = board.tasks
                     /\ board'.activeTask = 0
                     /\ drags' = drags
                     /\ server' = server
          /\ handleDragCancel =>
                 /\ board'.tasks = board.tasks
                 /\ board'.activeTask = 0
                 /\ drags' = drags
                 /\ server' = server]_vars

\* a drag is under way whose card is no longer in the local list
C25_Witness ==
    /\ DropOnly
    /\ board.dragging # 0
    /\ board.activeTask # 0
    /\ ~HasTask(board.tasks, board.dragging)

\* no drag is under way and no handleDragEnd waits for the tasks API
Settled ==
    /\ board.pc = "ready"
    /\ board.dragging = 0
    /\ \A h \in Handlers : drags[h].pc = "idle"

\* C26: once every request has settled, each task's local status is the
\* status the server holds for it.
C26_Converges ==
    Settled =>
        \A i \in 1..Len(board.tasks) :
            board.tasks[i].status = server[board.tasks[i].id]

\* C30: while the page is open with isLoading false and user null,
\* AppContent does not render the KanbanBoard.
C30_BoardOnlyWhenAuthenticated ==
    (auth.location = "app" /\ ~auth.isLoading /\ auth.user = "null")
        => AppContent(auth) # "board"

=============================================================================
